---- MODULE Spec2Model ----
(***************************************************************************)
(* Model of nodes.py: PanoramaViewerNode.view_pano and                     *)
(* PanoramaVideoViewerNode.view_video_pano.                                *)
(*                                                                         *)
(* One behaviour is one invocation of one of the two entry points.  The    *)
(* input tensor is an n-dimensional array (shape, dtype, elements in       *)
(* row-major order).  The imaging library calls (Image.fromarray,          *)
(* Image.resize, Image.save) and base64 are modelled by what they accept,  *)
(* reject and return.  A float pixel v stands for v / FloatDen.            *)
(*                                                                         *)
(* node             the entry point invoked: "pano" or "video"             *)
(* images           the tensor argument (images / video_frames)            *)
(* max_width, fps   the integer arguments                                  *)
(* fault            the number of the image whose PNG encoding fails in    *)
(*                  the imaging library (0: none)                          *)
(* pc               position in the handler; "done" after a return,        *)
(*                  "raised" after an exception (named by err)             *)
(* i, j             frames taken by the first and by the second loop       *)
(* frame_np, pil, new_size, processed_frames, frame_data   the locals      *)
(* result           the returned mapping, NoPayload before a return        *)
(***************************************************************************)
EXTENDS Integers, Sequences, FiniteSets, TLC

VARIABLES node, images, max_width, fps, fault, pc, i, j, frame_np, pil,
          new_size, processed_frames, frame_data, result, err

vars == <<node, images, max_width, fps, fault, pc, i, j, frame_np, pil,
          new_size, processed_frames, frame_data, result, err>>

\* the arguments of the invocation and the environment's choice
inputs == <<node, images, max_width, fps, fault>>

\* ---------------------------------------------------------------- bounds
MaxDim == 2
MaxBatch == 2
MaxWidth == 2
FloatDen == 4

\* ------------------------------------------------------------ ndarrays
\* An array is its shape, its dtype and its elements in row-major order.
Max2(a, b) == IF a >= b THEN a ELSE b

\* number of elements of an array of the given shape
RECURSIVE Prod(_)
Prod(shape) == IF Len(shape) = 0 THEN 1 ELSE Head(shape) * Prod(Tail(shape))

\* 0-based row-major offset of a 1-based index tuple
RECURSIVE Offset(_, _)
Offset(shape, idx) ==
    IF Len(shape) = 0 THEN 0
    ELSE (Head(idx) - 1) * Prod(Tail(shape)) + Offset(Tail(shape), Tail(idx))

\* a[idx]
At(a, idx) == a.data[Offset(a.shape, idx) + 1]

Rank(a) == Len(a.shape)

\* a[k] for a 1-based k: the k-th entry along the leading axis
SubArray(a, k) ==
    LET sz == Prod(Tail(a.shape))
    IN [shape |-> Tail(a.shape),
        dtype |-> a.dtype,
        data  |-> [p \in 1..sz |-> a.data[(k - 1) * sz + p]]]

\* (a * 255).astype(np.uint8): truncation toward zero, for values in [0, 1]
Scale255(v) == (v * 255) \div FloatDen

ToUint8(a) ==
    IF a.dtype # "uint8"
    THEN [shape |-> a.shape,
          dtype |-> "uint8",
          data  |-> [p \in DOMAIN a.data |-> Scale255(a.data[p])]]
    ELSE a

\* a[..., np.newaxis]: a trailing axis of length 1, same elements
NewAxis(a) == [a EXCEPT !.shape = a.shape \o <<1>>]

\* np.repeat(a, n, axis) with a 0-based axis: each entry along the axis is
\* repeated n times
Repeat(a, n, axis) ==
    LET axlen == a.shape[axis + 1]
        inner == Prod(SubSeq(a.shape, axis + 2, Len(a.shape)))
        newshape == [a.shape EXCEPT ![axis + 1] = n * axlen]
        Src(q) == ((q \div (n * axlen * inner)) * axlen * inner)
                  + ((((q \div inner) % (n * axlen)) \div n) * inner)
                  + (q % inner)
    IN [shape |-> newshape,
        dtype |-> a.dtype,
        data  |-> [p \in 1..Prod(newshape) |-> a.data[Src(p - 1) + 1]]]

\* mutant: the rank-2 case of the grayscale test is lost
IsGray_NoRank2(a) == Rank(a) = 3 /\ a.shape[3] = 1

IsGray(a) == Rank(a) = 2 \/ a.shape[3] = 1

GrayToRGB(a) == IF IsGray(a) THEN Repeat(NewAxis(a), 3, 2) ELSE a

\* ------------------------------------------------------ imaging library
NoImage == [mode |-> "none"]

\* Image.fromarray: the mode is looked up from (shape[2:], dtype)
ArrayMode(a) ==
    IF Rank(a) = 2 /\ a.dtype = "uint8" THEN "L"
    ELSE IF Rank(a) = 2 /\ a.dtype = "float32" THEN "F"
    ELSE IF Rank(a) = 3 /\ a.dtype = "uint8" /\ a.shape[3] = 2 THEN "LA"
    ELSE IF Rank(a) = 3 /\ a.dtype = "uint8" /\ a.shape[3] = 3 THEN "RGB"
    ELSE IF Rank(a) = 3 /\ a.dtype = "uint8" /\ a.shape[3] = 4 THEN "RGBA"
    ELSE "TypeError"

FromArray(a) ==
    [mode     |-> ArrayMode(a),
     size     |-> <<a.shape[2], a.shape[1]>>,
     pixels   |-> a.data,
     src_size |-> <<a.shape[2], a.shape[1]>>,
     resample |-> "NONE"]

Bands(img) ==
    CASE img.mode = "L"    -> 1
      [] img.mode = "F"    -> 1
      [] img.mode = "LA"   -> 2
      [] img.mode = "RGB"  -> 3
      [] img.mode = "RGBA" -> 4
      [] OTHER             -> 0

ElemType(img) == IF img.mode = "F" THEN "float32" ELSE "uint8"

\* mutant: the max_width > 0 guard is lost
NeedsResize_NoGuard(img, mw) == img.size[1] > mw \/ img.size[2] > mw

NeedsResize(img, mw) == mw > 0 /\ (img.size[1] > mw \/ img.size[2] > mw)

\* int(max_width * x / max(size)) for x in size
NewSize(img, mw) ==
    [d \in 1..2 |-> (mw * img.size[d]) \div Max2(img.size[1], img.size[2])]

\* Image.resize rejects a target without a positive width and height
ResizeOk(size) == size[1] >= 1 /\ size[2] >= 1

Resize(img, size) == [img EXCEPT !.size = size, !.resample = "LANCZOS"]

SavePNG(img) == [format |-> "PNG", image |-> img]

B64Encode(bytes) == [b64 |-> bytes]

DataURI(img) == [prefix |-> "data:image/png;base64,", img_str |-> B64Encode(SavePNG(img))]

\* str(n) for n >= 0
Digit == <<"0", "1", "2", "3", "4", "5", "6", "7", "8", "9">>

RECURSIVE Str(_)
Str(n) == IF n < 10 THEN Digit[n + 1] ELSE Str(n \div 10) \o Digit[(n % 10) + 1]

\* ---------------------------------------------------------------- inputs
Dtypes == {"uint8", "float32"}

Channels == {1, 2, 3, 4}

Seeds == {0, 1}

Ranks == {2, 3, 4}

FpsValues == {1, 24}

WidthValues == {-1, 0} \cup (1..MaxWidth)

ShapesOfRank(r) ==
    IF r = 2 THEN {<<h, w>> : h \in 1..MaxDim, w \in 1..MaxDim}
    ELSE IF r = 3
    THEN {<<h, w, c>> : h \in 1..MaxDim, w \in 1..MaxDim, c \in Channels}
    ELSE {<<b, h, w, c>> : b \in 0..MaxBatch, h \in 1..MaxDim,
                           w \in 1..MaxDim, c \in Channels}

Shapes == UNION {ShapesOfRank(r) : r \in Ranks}

\* pixel pattern of one image: the element at row-major offset q has a level
\* in 0..FloatDen that changes with the position and the channel
Level(seed, q) == (seed + q) % (FloatDen + 1)

\* a level as a uint8 value, or as a float level / FloatDen in [0, 1]
Pixel(dtype, level) == IF dtype = "uint8" THEN level * 50 ELSE level

NumSeeds(shape) == IF Len(shape) = 4 THEN shape[1] ELSE 1

\* the tensor of the given shape whose k-th image has the pattern seeds[k]
Tensor(shape, dtype, seeds) ==
    LET sz == IF Len(shape) = 4 THEN Prod(Tail(shape)) ELSE Prod(shape)
    IN [shape |-> shape,
        dtype |-> dtype,
        data  |-> [p \in 1..Prod(shape) |->
                      Pixel(dtype, Level(seeds[((p - 1) \div sz) + 1], (p - 1) % sz))]]

Tensors ==
    {Tensor(x[1], x[2], x[3]) : x \in
        {y \in Shapes \X Dtypes \X UNION {[1..n -> Seeds] : n \in 0..MaxBatch} :
            Len(y[3]) = NumSeeds(y[1])}}

NoArray == [shape |-> <<>>, dtype |-> "none", data |-> <<>>]

NoPayload == [none |-> TRUE]

\* ---------------------------------------------------------------- Init
Init ==
    /\ node \in {"pano", "video"}
    /\ images \in Tensors
    /\ max_width \in WidthValues
    /\ fps \in FpsValues
    /\ fault \in 0..MaxBatch
    /\ fault <= NumSeeds(images.shape)
    /\ (node = "pano" => fps = 24)
    /\ pc = "start"
    /\ i = 0
    /\ j = 0
    /\ frame_np = NoArray
    /\ pil = NoImage
    /\ new_size = <<>>
    /\ processed_frames = <<>>
    /\ frame_data = <<>>
    /\ result = NoPayload
    /\ err = ""

\* ------------------------------------------------- one image or frame
\* lines 93-111 (220-238): uint8 conversion, grayscale promotion,
\* Image.fromarray and the optional resize.  arr is the array handed to
\* fromarray, img the image held when the steps end, new_size the resize
\* target (<<>> when the branch is not taken), err the exception raised.
ProcessFrame(a, mw) ==
    LET arr == GrayToRGB(ToUint8(a))
        img == FromArray(arr)
    IN IF ArrayMode(arr) = "TypeError"
       THEN [arr |-> arr, img |-> NoImage, new_size |-> <<>>, err |-> "TypeError"]
       ELSE IF ~NeedsResize(img, mw)
       THEN [arr |-> arr, img |-> img, new_size |-> <<>>, err |-> ""]
       ELSE IF ResizeOk(NewSize(img, mw))
       THEN [arr |-> arr, img |-> Resize(img, NewSize(img, mw)),
             new_size |-> NewSize(img, mw), err |-> ""]
       ELSE [arr |-> arr, img |-> img,
             new_size |-> NewSize(img, mw), err |-> "ValueError"]

\* ------------------------------------------------------- view_pano steps
\* mutant: the last entry of the batch is taken
SelectImage_Last(t) == IF Rank(t) = 4 THEN SubArray(t, t.shape[1]) ELSE t

\* images[0] of a batch, else the tensor itself; then .cpu().numpy()
SelectImage(t) == IF Rank(t) = 4 THEN SubArray(t, 1) ELSE t

PanoSelect ==
    /\ node = "pano"
    /\ pc = "start"
    /\ IF Rank(images) = 4 /\ images.shape[1] = 0
       THEN /\ pc' = "raised"
            /\ err' = "IndexError"
            /\ UNCHANGED frame_np
       ELSE /\ frame_np' = SelectImage(images)
            /\ pc' = "process"
            /\ UNCHANGED err
    /\ UNCHANGED <<inputs, i, j, pil, new_size, processed_frames,
                   frame_data, result>>

\* conversion, grayscale promotion, fromarray and resize of the image
PanoProcess ==
    /\ node = "pano"
    /\ pc = "process"
    /\ LET f == ProcessFrame(frame_np, max_width)
       IN /\ frame_np' = f.arr
          /\ pil' = f.img
          /\ new_size' = f.new_size
          /\ err' = f.err
          /\ pc' = IF f.err = "" THEN "save" ELSE "raised"
    /\ UNCHANGED <<inputs, i, j, processed_frames, frame_data, result>>

PanoPayload(img) == [ui |-> [pano_image |-> DataURI(img)]]

\* pil_image.save, base64.b64encode and the return of view_pano
PanoEncode ==
    /\ node = "pano"
    /\ pc = "save"
    /\ IF fault = 1
       THEN /\ pc' = "raised"
            /\ err' = "OSError"
            /\ UNCHANGED result
       ELSE /\ result' = PanoPayload(pil)
            /\ pc' = "done"
            /\ UNCHANGED err
    /\ UNCHANGED <<inputs, i, j, frame_np, pil, new_size, processed_frames,
                   frame_data>>

\* view_pano: what it returns or raises
ViewPano(t, mw, flt) ==
    IF Rank(t) = 4 /\ t.shape[1] = 0
    THEN [result |-> NoPayload, err |-> "IndexError"]
    ELSE LET f == ProcessFrame(SelectImage(t), mw)
         IN IF f.err # ""
            THEN [result |-> NoPayload, err |-> f.err]
            ELSE IF flt = 1
            THEN [result |-> NoPayload, err |-> "OSError"]
            ELSE [result |-> PanoPayload(f.img), err |-> ""]

\* ------------------------------------------------- view_video_pano steps
\* mutant: a rank-3 tensor is taken for a batch
HasBatchDim_Rank3(t) == Rank(t) >= 3

HasBatchDim(t) == Rank(t) = 4

\* if len(video_frames.shape) != 4: raise ValueError
VideoCheckBatch ==
    /\ node = "video"
    /\ pc = "start"
    /\ IF HasBatchDim(images)
       THEN /\ pc' = "loop"
            /\ UNCHANGED err
       ELSE /\ pc' = "raised"
            /\ err' = "ValueError"
    /\ UNCHANGED <<inputs, i, j, frame_np, pil, new_size, processed_frames,
                   frame_data, result>>

\* mutant: the frame is put in front
AddFrame_Front(frames, f) == <<f>> \o frames

\* processed_frames.append(pil_frame)
AddFrame(frames, f) == Append(frames, f)

\* one iteration of "for frame in video_frames"
VideoFrame ==
    /\ pc = "loop"
    /\ i < images.shape[1]
    /\ LET f == ProcessFrame(SubArray(images, i + 1), max_width)
       IN /\ i' = i + 1
          /\ frame_np' = f.arr
          /\ pil' = f.img
          /\ new_size' = IF f.new_size # <<>> THEN f.new_size ELSE new_size
          /\ err' = f.err
          /\ IF f.err = ""
             THEN /\ processed_frames' = AddFrame(processed_frames, f.img)
                  /\ UNCHANGED pc
             ELSE /\ pc' = "raised"
                  /\ UNCHANGED processed_frames
    /\ UNCHANGED <<inputs, j, frame_data, result>>

\* mutant: a single frame counts as none
NoFrames_AtMostOne(frames) == Len(frames) <= 1

NoFrames(frames) == Len(frames) = 0

ErrorPayload == [ui |-> [error |-> "No frames found in input"]]

\* after the loop: if not processed_frames, return the error payload
VideoCheckEmpty ==
    /\ pc = "loop"
    /\ i >= images.shape[1]
    /\ IF NoFrames(processed_frames)
       THEN /\ result' = ErrorPayload
            /\ pc' = "done"
       ELSE /\ pc' = "encode"
            /\ UNCHANGED result
    /\ UNCHANGED <<inputs, i, j, frame_np, pil, new_size, processed_frames,
                   frame_data, err>>

\* mutant: a frame that fails to encode is skipped
VideoEncodeFrame_Skip ==
    /\ pc = "encode"
    /\ j < Len(processed_frames)
    /\ frame_data' = IF fault = j + 1
                     THEN frame_data
                     ELSE Append(frame_data, DataURI(processed_frames[j + 1]))
    /\ j' = j + 1
    /\ UNCHANGED <<inputs, pc, i, frame_np, pil, new_size, processed_frames,
                   result, err>>

\* one iteration of "for frame in processed_frames": save as PNG, base64,
\* append the data URI
VideoEncodeFrame ==
    /\ pc = "encode"
    /\ j < Len(processed_frames)
    /\ IF fault = j + 1
       THEN /\ pc' = "raised"
            /\ err' = "OSError"
            /\ UNCHANGED <<j, frame_data>>
       ELSE /\ frame_data' = Append(frame_data, DataURI(processed_frames[j + 1]))
            /\ j' = j + 1
            /\ UNCHANGED <<pc, err>>
    /\ UNCHANGED <<inputs, i, frame_np, pil, new_size, processed_frames, result>>

VideoPayload(data, frames, rate) ==
    [ui |-> [pano_video_preview |-> data[1],
             pano_video_frames  |-> data,
             frame_count        |-> Str(Len(frames)),
             fps                |-> Str(rate),
             video_type         |-> "360_equirectangular"]]

\* the return of view_video_pano; frame_data[0] of an empty list raises
VideoReturn ==
    /\ pc = "encode"
    /\ j >= Len(processed_frames)
    /\ IF Len(frame_data) = 0
       THEN /\ pc' = "raised"
            /\ err' = "IndexError"
            /\ UNCHANGED result
       ELSE /\ result' = VideoPayload(frame_data, processed_frames, fps)
            /\ pc' = "done"
            /\ UNCHANGED err
    /\ UNCHANGED <<inputs, i, j, frame_np, pil, new_size, processed_frames,
                   frame_data>>

Next ==
    \/ PanoSelect
    \/ PanoProcess
    \/ PanoEncode
    \/ VideoCheckBatch
    \/ VideoFrame
    \/ VideoCheckEmpty
    \/ VideoEncodeFrame
    \/ VideoReturn

Spec == Init /\ [][Next]_vars

\* ------------------------------------------------ vocabulary of the claims
\* shape of one image of the input: a batch entry, or the tensor itself
FrameShape == IF Rank(images) = 4 THEN Tail(images.shape) ELSE images.shape

InW == FrameShape[2]

InH == FrameShape[1]

Longer == Max2(InW, InH)

GrayInput == Len(FrameShape) = 2 \/ FrameShape[3] = 1

\* a frame has been taken from the input and has passed the grayscale step
PastGray == frame_np # NoArray /\ pc # "process"

ChannelsEqual(a) ==
    \A y \in 1..a.shape[1], x \in 1..a.shape[2] :
        /\ At(a, <<y, x, 1>>) = At(a, <<y, x, 2>>)
        /\ At(a, <<y, x, 2>>) = At(a, <<y, x, 3>>)

Returned == pc = "done" /\ "ui" \in DOMAIN result

HasKey(k) == Returned /\ k \in DOMAIN result.ui

\* the image a data URI decodes to
Decoded(uri) == uri.img_str.b64.image

\* the rasters handed to PNG encoding in the current state
AtEncoding ==
    IF pc = "save" THEN {pil}
    ELSE IF pc = "encode" THEN {processed_frames[k] : k \in 1..Len(processed_frames)}
    ELSE {}

\* ------------------------------------------------------------------ C1
\* C1: for a grayscale input (rank 2, or a channel axis of size 1) the
\* grayscale step yields a raster of shape (H, W, 3) with three equal
\* channels at every pixel, and the raster is accepted as an image, so that
\* the invocation goes on to encoding instead of failing on it.
C1_GrayPromotion ==
    (GrayInput /\ PastGray) =>
        /\ frame_np.shape = <<InH, InW, 3>>
        /\ ChannelsEqual(frame_np)
        /\ err # "TypeError"

\* ------------------------------------------------------------------ C2
\* C2 as stated: every raster that reaches PNG encoding has exactly 3
\* channels and uint8 elements.
C2_Original ==
    \A img \in AtEncoding : Bands(img) = 3 /\ ElemType(img) = "uint8"

\* C2 amended: every raster that reaches PNG encoding has uint8 elements; it
\* has 3 channels when the input image is rank 2 or has 3 channels, and keeps
\* the input's 2 or 4 channels otherwise.
C2_EncodedFormat ==
    \A img \in AtEncoding :
        /\ ElemType(img) = "uint8"
        /\ IF Len(FrameShape) = 2 \/ FrameShape[3] = 3
           THEN Bands(img) = 3
           ELSE FrameShape[3] \in {2, 4} /\ Bands(img) = FrameShape[3]

C2_Witness ==
    /\ pc = "encode"
    /\ images.dtype = "float32"
    /\ images.shape[4] = 3
    /\ Len(processed_frames) = 2
    /\ \A k \in 1..2 : processed_frames[k].mode = "RGB"

\* ------------------------------------------------------------------ C3
\* C3: whenever the resize branch is taken, the resize produces an image
\* whose longer side is max_width and whose shorter side is less than one
\* pixel away from max_width * shorter / longer; no side exceeds max_width.
C3_ResizeProportional ==
    new_size # <<>> =>
        /\ pil.resample = "LANCZOS"
        /\ Max2(pil.size[1], pil.size[2]) = max_width
        /\ \A d \in 1..2 :
              /\ pil.size[d] * Longer - max_width * FrameShape[3 - d] < Longer
              /\ max_width * FrameShape[3 - d] - pil.size[d] * Longer < Longer
              /\ pil.size[d] <= max_width

\* ------------------------------------------------------------------ C4
\* C4: with max_width = -1, or with no side longer than max_width, no resize
\* is performed and every returned image has the input's dimensions (W, H).
C4_NoResize ==
    (max_width = -1 \/ Longer <= max_width) =>
        /\ new_size = <<>>
        /\ (pil # NoImage => pil.size = <<InW, InH>> /\ pil.resample = "NONE")
        /\ (HasKey("pano_image") =>
               Decoded(result.ui.pano_image).size = <<InW, InH>>)
        /\ (HasKey("pano_video_frames") =>
               \A k \in 1..Len(result.ui.pano_video_frames) :
                   Decoded(result.ui.pano_video_frames[k]).size = <<InW, InH>>)

C4_Witness ==
    /\ HasKey("pano_image")
    /\ max_width = 2
    /\ <<InW, InH>> = <<2, 1>>
    /\ Decoded(result.ui.pano_image).size = <<2, 1>>

\* ------------------------------------------------------------------ C5
\* the batches of the input space that agree with the batch t on entry 0
SameFirst(t) ==
    {o \in UNION {{Tensor(<<b>> \o Tail(t.shape), t.dtype, sd) : sd \in [1..b -> Seeds]} :
                     b \in 1..MaxBatch} :
        SubArray(o, 1) = SubArray(t, 1)}

\* C5: the outcome of view_pano on a batch is the outcome on every other
\* batch with the same entry 0 and the same max_width.
C5_OnlyFirstEntry ==
    (node = "pano" /\ Rank(images) = 4 /\ images.shape[1] >= 1
                   /\ pc \in {"done", "raised"}) =>
        \A o \in SameFirst(images) :
            ViewPano(o, max_width, fault) = [result |-> result, err |-> err]

C5_Witness ==
    /\ node = "pano"
    /\ HasKey("pano_image")
    /\ Rank(images) = 4
    /\ images.shape[1] = 2
    /\ SubArray(images, 1) # SubArray(images, 2)
    /\ \E o \in SameFirst(images) : o.shape[1] = 1

\* ------------------------------------------------------------------ C6
\* C6: a returned frame payload of view_video_pano on N frames has
\* frame_count = str(N), fps = str(fps), the fixed video_type, N data URIs
\* of which the k-th is the one derived from the k-th input frame, and the
\* first of them as the preview.
C6_VideoPayload ==
    (node = "video" /\ HasKey("pano_video_frames")) =>
        LET ui == result.ui
            n  == images.shape[1]
        IN /\ n >= 1
           /\ ui.frame_count = Str(n)
           /\ (n = 2 => ui.frame_count = "2")
           /\ ui.fps = Str(fps)
           /\ (fps = 24 => ui.fps = "24")
           /\ ui.video_type = "360_equirectangular"
           /\ Len(ui.pano_video_frames) = n
           /\ \A k \in 1..n :
                 ui.pano_video_frames[k] =
                     DataURI(ProcessFrame(SubArray(images, k), max_width).img)
           /\ ui.pano_video_preview = ui.pano_video_frames[1]

C6_Witness ==
    /\ node = "video"
    /\ HasKey("pano_video_frames")
    /\ images.shape[1] = 2
    /\ fps = 24
    /\ result.ui.frame_count = "2"
    /\ result.ui.pano_video_frames[1] # result.ui.pano_video_frames[2]

\* ------------------------------------------------------------------ C7
\* C7: view_video_pano on a tensor whose rank is not 4 raises before any
\* frame is taken and returns nothing.
C7_RejectUnbatched ==
    (node = "video" /\ Rank(images) # 4 /\ pc # "start") =>
        /\ pc = "raised"
        /\ err = "ValueError"
        /\ result = NoPayload
        /\ i = 0
        /\ frame_np = NoArray
        /\ processed_frames = <<>>
        /\ frame_data = <<>>

C7_Witness ==
    /\ node = "video"
    /\ Rank(images) = 3
    /\ pc = "raised"
    /\ err = "ValueError"

\* ------------------------------------------------------------------ C8
\* C8: view_video_pano on a batch of zero frames does not raise and returns
\* a payload whose only key is error; the error payload is returned for no
\* other input.
C8_EmptyBatch ==
    /\ (node = "video" /\ Rank(images) = 4 /\ images.shape[1] = 0) =>
          /\ pc \notin {"raised", "encode"}
          /\ (pc = "done" =>
                 /\ DOMAIN result.ui = {"error"}
                 /\ result.ui.error = "No frames found in input")
    /\ HasKey("error") =>
          /\ node = "video"
          /\ Rank(images) = 4
          /\ images.shape[1] = 0

C8_Witness ==
    /\ node = "video"
    /\ images.shape[1] = 0
    /\ HasKey("error")

\* ------------------------------------------------------------------ C9
\* C9: view_video_pano returns nothing when a frame fails, and a returned
\* frame payload holds every one of the N input frames, processed and
\* encoded.
C9_AllOrNothing ==
    node = "video" =>
        /\ (pc = "raised" => result = NoPayload)
        /\ (result # NoPayload => pc = "done")
        /\ (HasKey("pano_video_frames") =>
               /\ Len(processed_frames) = images.shape[1]
               /\ Len(result.ui.pano_video_frames) = images.shape[1]
               /\ j = images.shape[1])

C9_Witness ==
    /\ node = "video"
    /\ pc = "raised"
    /\ err = "OSError"
    /\ images.shape[1] = 2
    /\ fault = 2
    /\ Len(frame_data) = 1
    /\ result = NoPayload

\* ----------------------------------------------------------------- C10
\* C10: whenever the resize branch is taken, the computed target size is at
\* least 1 in both dimensions.
C10_TargetPositive ==
    new_size # <<>> => new_size[1] >= 1 /\ new_size[2] >= 1

====
